---- MODULE Spec2Model ----
(***************************************************************************)
(* Model of src/server.py: the dbt Cloud client (DbtCloudClient), the tool *)
(* catalog (list_tools), the dispatcher (call_tool) and the six handlers.  *)
(*                                                                         *)
(* One dispatch is one action.  A handler suspends only while a remote     *)
(* request is in flight and shares no mutable state with other dispatches, *)
(* so a dispatch is modelled atomically: the handler is an operator from   *)
(* (arguments, remote answers) to (requests issued, value returned or      *)
(* exception raised), and call_tool turns that into the returned result.   *)
(***************************************************************************)
EXTENDS Integers, Sequences, FiniteSets, TLC

(***************************************************************************)
(* State: the last dispatch (tool name, argument mapping, the exchanges    *)
(* with the remote made on its behalf, the result returned, whether an     *)
(* exception left call_tool, where the confirmation gate ended) and what   *)
(* the remote has seen over all dispatches.  The program itself keeps no   *)
(* state between dispatches.                                               *)
(***************************************************************************)
VARIABLES tool_name, tool_arguments, exchanges, result, escaped, gate,
          dispatches, posts, proceeded
vars == <<tool_name, tool_arguments, exchanges, result, escaped, gate,
          dispatches, posts, proceeded>>

(***************************************************************************)
(* Python values.  Every value is a record of the same shape so that any   *)
(* two values can be compared: k is the Python type, i the number (or the  *)
(* truth value of a bool, 1 for True), s the text of a str.  Absent is a   *)
(* key that the argument mapping does not hold (and None where the code    *)
(* reads it with arguments.get(key)).                                      *)
(***************************************************************************)
Absent == [k |-> "absent", i |-> 0, s |-> ""]
IntV(n) == [k |-> "int", i |-> n, s |-> ""]
StrV(x) == [k |-> "str", i |-> 0, s |-> x]
BoolV(b) == [k |-> "bool", i |-> IF b THEN 1 ELSE 0, s |-> ""]

\* Python truthiness, as `if x:` and `not x` evaluate it.
Truthy(v) ==
    CASE v.k = "int" -> v.i # 0
      [] v.k = "bool" -> v.i = 1
      [] v.k = "str" -> v.s # ""
      [] OTHER -> FALSE

\* str(x), as an f-string renders the value.
PyStr(v) ==
    CASE v.k = "int" -> ToString(v.i)
      [] v.k = "bool" -> IF v.i = 1 THEN "True" ELSE "False"
      [] v.k = "str" -> v.s
      [] OTHER -> "None"

\* dict.get(key, default) on the argument mapping.
Get(arguments, key, default) ==
    IF arguments[key] = Absent THEN default ELSE arguments[key]

\* The project id 351878080626727 written in the catalog and the handlers.
\* It is beyond TLC's 32-bit integers; the code only passes it on, compares
\* it with nothing and tests its truth, so the model keeps its last digits.
DefaultProject == 626727
DefaultLimit == 10
SearchRunsLimit == 5
SearchRunsShown == 3
PreviewDefaultLimit == 100
StatusOk == 200
DefaultCause == "Triggered via MCP"

(***************************************************************************)
(* The tool catalog returned by list_tools.                                *)
(***************************************************************************)
Params == {"query", "project_id", "model_name", "limit", "job_id", "cause",
           "confirm_execution"}

NoBound == Absent
Prop(type, default, minimum, maximum) ==
    [type |-> type, default |-> default, minimum |-> minimum, maximum |-> maximum]

ListTools ==
    << [name |-> "search_in_project",
        properties |-> [p \in {"query", "project_id"} |->
            IF p = "query" THEN Prop("string", Absent, NoBound, NoBound)
            ELSE Prop("integer", IntV(DefaultProject), NoBound, NoBound)],
        required |-> {"query"}],
       [name |-> "get_recent_runs",
        properties |-> [p \in {"project_id", "limit"} |->
            IF p = "project_id"
            THEN Prop("integer", IntV(DefaultProject), NoBound, NoBound)
            ELSE Prop("integer", IntV(DefaultLimit), IntV(1), IntV(50))],
        required |-> {}],
       [name |-> "preview_model",
        properties |-> [p \in {"project_id", "model_name", "limit"} |->
            CASE p = "project_id" -> Prop("integer", Absent, NoBound, NoBound)
              [] p = "model_name" -> Prop("string", Absent, NoBound, NoBound)
              [] OTHER -> Prop("integer", IntV(PreviewDefaultLimit), IntV(1), IntV(1000))],
        required |-> {"project_id", "model_name"}],
       [name |-> "trigger_job_with_confirmation",
        properties |-> [p \in {"job_id", "cause", "confirm_execution"} |->
            CASE p = "job_id" -> Prop("integer", Absent, NoBound, NoBound)
              [] p = "cause" -> Prop("string", StrV(DefaultCause), NoBound, NoBound)
              [] OTHER -> Prop("boolean", BoolV(FALSE), NoBound, NoBound)],
        required |-> {"job_id", "confirm_execution"}],
       [name |-> "list_projects",
        properties |-> [p \in {} |-> Prop("string", Absent, NoBound, NoBound)],
        required |-> {}],
       [name |-> "list_jobs",
        properties |-> [p \in {"project_id"} |->
            Prop("integer", Absent, NoBound, NoBound)],
        required |-> {}] >>

CatalogNames == {ListTools[n].name : n \in 1..Len(ListTools)}
ToolSpec(name) == CHOOSE t \in {ListTools[n] : n \in 1..Len(ListTools)} : t.name = name

\* The JSON-schema type of a supplied value.
SchemaType(v) ==
    CASE v.k = "int" -> "integer"
      [] v.k = "str" -> "string"
      [] v.k = "bool" -> "boolean"
      [] OTHER -> "null"

(***************************************************************************)
(* The remote API.  A response is what httpx hands back for one request:   *)
(* transport = TRUE when the transport itself raised instead of answering, *)
(* otherwise a status code and, under the "data" key of the JSON body, the *)
(* listed items.  For POST jobs/{id}/run/ "data" is one mapping: the empty *)
(* sequence stands for a mapping without "id", a one-item sequence for the *)
(* mapping of the run that was started.                                    *)
(***************************************************************************)
Item(id, name) == [id |-> id, name |-> name]
Response(transport, status, data) ==
    [transport |-> transport, status |-> status, data |-> data]

NoParams == [limit |-> Absent, job_definition_id |-> Absent, project_id |-> Absent]
NoJson == [cause |-> Absent]
Request(method, endpoint, params, json) ==
    [method |-> method, endpoint |-> endpoint, params |-> params, json |-> json]

\* Exceptions: the class, the status code the message carries (0: none)
\* and the rest of the message.
Exc(type, status, msg) == [type |-> type, status |-> status, msg |-> msg]
NoExc == Exc("", 0, "")

(***************************************************************************)
(* DbtCloudClient.  A client call yields the exchanges it made (request    *)
(* and response, in order), whether it raised, the exception, and the      *)
(* value of response.get("data", ...) it returns.                          *)
(***************************************************************************)
Exchange(req, resp) == [req |-> req, resp |-> resp]
Call(made, raised, exc, data) ==
    [exchanges |-> made, raised |-> raised, exc |-> exc, data |-> data]

\* _make_request: one request, no retry; a status other than 200 raises
\* Exception("API request failed: {status} - {text}").
MakeRequest(method, endpoint, params, json, resp) ==
    LET made == <<Exchange(Request(method, endpoint, params, json), resp)>>
    IN  IF resp.transport
        THEN Call(made, TRUE, Exc("ConnectError", 0, "transport failure"), <<>>)
        ELSE IF resp.status # StatusOk
        THEN Call(made, TRUE,
                  Exc("Exception", resp.status,
                      "API request failed: " \o ToString(resp.status) \o " - "),
                  <<>>)
        ELSE Call(made, FALSE, NoExc, resp.data)

GetProjects(resp) == MakeRequest("GET", "projects/", NoParams, NoJson, resp)

GetJobs(project_id, resp) ==
    LET endpoint == IF Truthy(project_id)
                    THEN "jobs/" \o "?project_id=" \o PyStr(project_id)
                    ELSE "jobs/"
    IN  MakeRequest("GET", endpoint, NoParams, NoJson, resp)

\* A get_runs that sends its query as a POST.
GetRuns_post(job_id, project_id, limit, resp) ==
    LET params == [limit |-> limit,
                   job_definition_id |-> IF Truthy(job_id) THEN job_id ELSE Absent,
                   project_id |-> IF Truthy(project_id) THEN project_id ELSE Absent]
    IN  MakeRequest("POST", "runs/", params, NoJson, resp)

GetRuns(job_id, project_id, limit, resp) ==
    LET params == [limit |-> limit,
                   job_definition_id |-> IF Truthy(job_id) THEN job_id ELSE Absent,
                   project_id |-> IF Truthy(project_id) THEN project_id ELSE Absent]
    IN  MakeRequest("GET", "runs/", params, NoJson, resp)

\* A trigger_job that sends the request again when it failed.
TriggerJob_retry(job_id, cause, resp) ==
    LET first == MakeRequest("POST", "jobs/" \o PyStr(job_id) \o "/run/", NoParams,
                             [cause |-> cause], resp)
    IN  IF first.raised
        THEN [first EXCEPT !.exchanges = first.exchanges \o first.exchanges]
        ELSE first

TriggerJob(job_id, cause, resp) ==
    MakeRequest("POST", "jobs/" \o PyStr(job_id) \o "/run/", NoParams,
                [cause |-> cause], resp)

\* str.lower() and the `in` test on the names and queries of the model.
Lower(s) ==
    CASE s = "DAILY" -> "daily"
      [] s = "Daily build" -> "daily build"
      [] OTHER -> s
Contains(sub, s) ==
    \/ sub = ""
    \/ sub = s
    \/ <<sub, s>> \in {<<"daily", "daily build">>}

Take(seq, n) == SubSeq(seq, 1, IF Len(seq) < n THEN Len(seq) ELSE n)

\* DbtCloudClient.search_in_project: the job listing, then the recent runs,
\* then the filter, whose query.lower() raises for a query that is no str
\* as soon as there is a job to test.  `jobs` holds results["jobs"] and
\* `recent_runs` holds results["recent_runs"].
SearchCall(made, raised, exc, jobs, recent_runs) ==
    [exchanges |-> made, raised |-> raised, exc |-> exc,
     jobs |-> jobs, recent_runs |-> recent_runs]

ClientSearchInProject(query, project_id, remote) ==
    LET jobs == GetJobs(project_id, remote[1])
        runs == GetRuns(Absent, project_id, IntV(SearchRunsLimit), remote[2])
        both == jobs.exchanges \o runs.exchanges
        Matches(job) == \/ Contains(Lower(query.s), Lower(job.name))
                        \/ Contains(Lower(query.s), Lower(""))
    IN  IF jobs.raised
        THEN SearchCall(jobs.exchanges, TRUE, jobs.exc, <<>>, <<>>)
        ELSE IF runs.raised
        THEN SearchCall(both, TRUE, runs.exc, <<>>, <<>>)
        ELSE IF query.k # "str" /\ jobs.data # <<>>
        THEN SearchCall(both, TRUE,
                        Exc("AttributeError", 0, "object has no attribute 'lower'"),
                        <<>>, <<>>)
        ELSE SearchCall(both, FALSE, NoExc, SelectSeq(jobs.data, Matches),
                        Take(runs.data, SearchRunsShown))

(***************************************************************************)
(* The handlers.  A handler yields the exchanges made on its behalf,       *)
(* whether an exception left it, the exception, the result it returned and *)
(* the state in which the confirmation gate ended ("none" for a tool that  *)
(* has no gate or did not reach it).  A result is the text the handler     *)
(* composes, kept as the values the text is built from.                    *)
(***************************************************************************)
Result(kind) ==
    [kind |-> kind, status |-> 0, msg |-> "", tool |-> "", project |-> Absent,
     query |-> Absent, job |-> Absent, run |-> Absent, cause |-> Absent,
     model |-> Absent, jobs |-> <<>>, runs |-> <<>>]
NoResult == Result("none")

Handled(made, raised, exc, returned, gated) ==
    [exchanges |-> made, raised |-> raised, exc |-> exc,
     result |-> returned, gate |-> gated]
Raises(made, exc) == Handled(made, TRUE, exc, NoResult, "none")
Returns(made, returned) == Handled(made, FALSE, NoExc, returned, "none")
KeyError(key) == Exc("KeyError", 0, "'" \o key \o "'")

SearchInProject(arguments, remote) ==
    IF arguments["query"] = Absent THEN Raises(<<>>, KeyError("query"))
    ELSE
    LET query == arguments["query"]
        project_id == Get(arguments, "project_id", IntV(DefaultProject))
        results == ClientSearchInProject(query, project_id, remote)
    IN  IF results.raised THEN Raises(results.exchanges, results.exc)
        ELSE Returns(results.exchanges,
                     [Result("ok") EXCEPT !.query = query, !.project = project_id,
                                          !.jobs = results.jobs,
                                          !.runs = results.recent_runs])

\* A get_recent_runs whose fallback for limit is not the catalog's default.
GetRecentRuns_limit5(arguments, remote) ==
    LET project_id == Get(arguments, "project_id", IntV(DefaultProject))
        limit == Get(arguments, "limit", IntV(SearchRunsLimit))
        runs == GetRuns(Absent, project_id, limit, remote[1])
    IN  IF runs.raised THEN Raises(runs.exchanges, runs.exc)
        ELSE IF runs.data = <<>>
        THEN Returns(runs.exchanges, [Result("empty") EXCEPT !.project = project_id])
        ELSE Returns(runs.exchanges,
                     [Result("ok") EXCEPT !.project = project_id, !.runs = runs.data])

GetRecentRuns(arguments, remote) ==
    LET project_id == Get(arguments, "project_id", IntV(DefaultProject))
        limit == Get(arguments, "limit", IntV(DefaultLimit))
        runs == GetRuns(Absent, project_id, limit, remote[1])
    IN  IF runs.raised THEN Raises(runs.exchanges, runs.exc)
        ELSE IF runs.data = <<>>
        THEN Returns(runs.exchanges, [Result("empty") EXCEPT !.project = project_id])
        ELSE Returns(runs.exchanges,
                     [Result("ok") EXCEPT !.project = project_id, !.runs = runs.data])

\* DbtCloudClient defines no preview_model: once both required keys are
\* read, the attribute lookup raises before anything is sent.
PreviewModel(arguments, remote) ==
    IF arguments["project_id"] = Absent THEN Raises(<<>>, KeyError("project_id"))
    ELSE IF arguments["model_name"] = Absent THEN Raises(<<>>, KeyError("model_name"))
    ELSE Raises(<<>>, Exc("AttributeError", 0,
                          "'DbtCloudClient' object has no attribute 'preview_model'"))

\* A gate that remembers that an earlier dispatch was confirmed.
ConfirmationGate_remembers(arguments) ==
    IF Truthy(Get(arguments, "confirm_execution", BoolV(FALSE))) \/ proceeded > 0
    THEN "Proceeding" ELSE "Blocked"

\* The confirmation gate of trigger_job_with_confirmation: `if not
\* confirm_execution` on arguments.get("confirm_execution", False).
ConfirmationGate(arguments) ==
    IF Truthy(Get(arguments, "confirm_execution", BoolV(FALSE)))
    THEN "Proceeding" ELSE "Blocked"

TriggerJobWithConfirmation(arguments, remote) ==
    IF arguments["job_id"] = Absent THEN Raises(<<>>, KeyError("job_id"))
    ELSE
    LET job_id == arguments["job_id"]
        cause == Get(arguments, "cause", StrV(DefaultCause))
        run_result == TriggerJob(job_id, cause, remote[1])
    IN  IF ConfirmationGate(arguments) = "Blocked"
        THEN Handled(<<>>, FALSE, NoExc,
                     [Result("blocked") EXCEPT !.job = job_id, !.cause = cause,
                                               !.msg = "Set 'confirm_execution' to true"],
                     "Blocked")
        ELSE IF run_result.raised
        THEN Handled(run_result.exchanges, FALSE, NoExc,
                     [Result("failed") EXCEPT !.job = job_id,
                                              !.status = run_result.exc.status,
                                              !.msg = run_result.exc.msg],
                     "Proceeding")
        ELSE Handled(run_result.exchanges, FALSE, NoExc,
                     [Result("triggered") EXCEPT
                         !.job = job_id, !.cause = cause,
                         !.run = IF run_result.data = <<>> THEN StrV("N/A")
                                 ELSE IntV(run_result.data[1].id)],
                     "Proceeding")

ListProjects(arguments, remote) ==
    LET projects == GetProjects(remote[1])
    IN  IF projects.raised THEN Raises(projects.exchanges, projects.exc)
        ELSE IF projects.data = <<>> THEN Returns(projects.exchanges, Result("empty"))
        ELSE Returns(projects.exchanges, [Result("ok") EXCEPT !.jobs = projects.data])

ListJobs(arguments, remote) ==
    LET project_id == arguments["project_id"]
        endpoint == IF Truthy(project_id)
                    THEN "jobs/?project_id=" \o PyStr(project_id)
                    ELSE "jobs/"
        response == MakeRequest("GET", endpoint, NoParams, NoJson, remote[1])
    IN  IF response.raised THEN Raises(response.exchanges, response.exc)
        ELSE IF response.data = <<>>
        THEN Returns(response.exchanges, [Result("empty") EXCEPT !.project = project_id])
        ELSE Returns(response.exchanges,
                     [Result("ok") EXCEPT !.project = project_id, !.jobs = response.data])

(***************************************************************************)
(* call_tool: routes by name; whatever exception leaves a handler is       *)
(* returned as "Error: {e}".  A result of kind "escaped" would be an       *)
(* exception that leaves call_tool.                                        *)
(***************************************************************************)
\* A routing that lacks the final else and ends in the last handler.
Route_fallthrough(name, arguments, remote) ==
    CASE name = "search_in_project" -> SearchInProject(arguments, remote)
      [] name = "get_recent_runs" -> GetRecentRuns(arguments, remote)
      [] name = "preview_model" -> PreviewModel(arguments, remote)
      [] name = "trigger_job_with_confirmation" ->
            TriggerJobWithConfirmation(arguments, remote)
      [] name = "list_projects" -> ListProjects(arguments, remote)
      [] OTHER -> ListJobs(arguments, remote)

Route(name, arguments, remote) ==
    CASE name = "search_in_project" -> SearchInProject(arguments, remote)
      [] name = "get_recent_runs" -> GetRecentRuns(arguments, remote)
      [] name = "preview_model" -> PreviewModel(arguments, remote)
      [] name = "trigger_job_with_confirmation" ->
            TriggerJobWithConfirmation(arguments, remote)
      [] name = "list_projects" -> ListProjects(arguments, remote)
      [] name = "list_jobs" -> ListJobs(arguments, remote)
      [] OTHER -> Returns(<<>>, [Result("unknown") EXCEPT !.tool = name])

\* A call_tool without the try/except around the routing.
CallTool_rethrow(name, arguments, remote) == Route(name, arguments, remote)

CallTool(name, arguments, remote) ==
    LET h == Route(name, arguments, remote)
    IN  IF h.raised
        THEN [h EXCEPT !.raised = FALSE,
                       !.result = [Result("error") EXCEPT !.status = h.exc.status,
                                                          !.msg = h.exc.msg]]
        ELSE h

MaxDispatches == 3

Args(query, project_id, model_name, limit, job_id, cause, confirm_execution) ==
    [query |-> query, project_id |-> project_id, model_name |-> model_name,
     limit |-> limit, job_id |-> job_id, cause |-> cause,
     confirm_execution |-> confirm_execution]
NoArgs == Args(Absent, Absent, Absent, Absent, Absent, Absent, Absent)

\* The argument values and the remote answers the dispatches are drawn from.
ProjectIds == {Absent, IntV(DefaultProject), IntV(7), StrV("abc")}
Queries == {Absent, StrV("DAILY"), StrV("orders"), IntV(5)}
Limits == {Absent, IntV(0), IntV(1), IntV(DefaultLimit), IntV(50), IntV(51),
           StrV("ten")}
ModelNames == {Absent, StrV("orders"), IntV(3)}
JobIds == {Absent, IntV(42), StrV("42")}
Causes == {Absent, StrV("nightly")}
Confirmations == {Absent, BoolV(FALSE), BoolV(TRUE), StrV("yes"), StrV(""),
                  IntV(1), IntV(0)}
UnknownNames == {"drop_database", "trigger_job", ""}

SearchArgs == {Args(q, p, Absent, Absent, Absent, Absent, Absent) :
                  q \in Queries, p \in ProjectIds}
RunsArgs == {Args(Absent, p, Absent, l, Absent, Absent, Absent) :
                  p \in ProjectIds, l \in Limits}
PreviewArgs == {Args(Absent, p, m, l, Absent, Absent, Absent) :
                  p \in ProjectIds, m \in ModelNames,
                  l \in {Absent, IntV(PreviewDefaultLimit)}}
TriggerArgs == {Args(Absent, Absent, Absent, Absent, j, c, x) :
                  j \in JobIds, c \in Causes, x \in Confirmations}
JobsArgs == {Args(Absent, p, Absent, Absent, Absent, Absent, Absent) :
                  p \in ProjectIds}
UnknownArgs == {NoArgs,
                Args(Absent, Absent, Absent, Absent, IntV(42), Absent, BoolV(TRUE)),
                Args(StrV("DAILY"), IntV(7), Absent, IntV(1), Absent, Absent, Absent)}

Run99 == Item(99, "Daily build")
Responses == {Response(FALSE, StatusOk, <<>>), Response(FALSE, StatusOk, <<Run99>>),
              Response(FALSE, 500, <<>>), Response(FALSE, 404, <<>>),
              Response(TRUE, 0, <<>>)}

Posts(made) == Cardinality({n \in 1..Len(made) : made[n].req.method = "POST"})

Init ==
    /\ tool_name = ""
    /\ tool_arguments = NoArgs
    /\ exchanges = <<>>
    /\ result = NoResult
    /\ escaped = FALSE
    /\ gate = "none"
    /\ dispatches = 0
    /\ posts = 0
    /\ proceeded = 0

\* One call of call_tool(n, a) against a remote that answers the first
\* request with remote[1] and the second with remote[2].
Dispatch(n, a, remote) ==
    /\ dispatches < MaxDispatches
    /\ \E h \in {CallTool(n, a, remote)} :
           /\ tool_name' = n
           /\ tool_arguments' = a
           /\ exchanges' = h.exchanges
           /\ result' = h.result
           /\ escaped' = h.raised
           /\ gate' = h.gate
           /\ dispatches' = dispatches + 1
           /\ posts' = posts + Posts(h.exchanges)
           /\ proceeded' = proceeded + IF h.gate = "Proceeding" THEN 1 ELSE 0

DispatchSearchInProject ==
    \E a \in SearchArgs, r1 \in Responses, r2 \in Responses :
        Dispatch("search_in_project", a, <<r1, r2>>)
DispatchGetRecentRuns ==
    \E a \in RunsArgs, r \in Responses : Dispatch("get_recent_runs", a, <<r, r>>)
DispatchPreviewModel ==
    \E a \in PreviewArgs, r \in Responses : Dispatch("preview_model", a, <<r, r>>)
DispatchTriggerJob ==
    \E a \in TriggerArgs, r \in Responses :
        Dispatch("trigger_job_with_confirmation", a, <<r, r>>)
DispatchListProjects ==
    \E r \in Responses : Dispatch("list_projects", NoArgs, <<r, r>>)
DispatchListJobs ==
    \E a \in JobsArgs, r \in Responses : Dispatch("list_jobs", a, <<r, r>>)
DispatchUnknown ==
    \E n \in UnknownNames, a \in UnknownArgs, r \in Responses :
        Dispatch(n, a, <<r, r>>)

Next ==
    \/ DispatchSearchInProject
    \/ DispatchGetRecentRuns
    \/ DispatchPreviewModel
    \/ DispatchTriggerJob
    \/ DispatchListProjects
    \/ DispatchListJobs
    \/ DispatchUnknown

Spec == Init /\ [][Next]_vars

TypeOK ==
    /\ dispatches \in 0..MaxDispatches
    /\ posts \in 0..dispatches
    /\ proceeded \in 0..dispatches
    /\ gate \in {"none", "Blocked", "Proceeding"}
    /\ escaped \in BOOLEAN
    /\ Len(exchanges) \in 0..2

(***************************************************************************)
(* Properties.                                                             *)
(***************************************************************************)
Trigger == "trigger_job_with_confirmation"
Dispatched == dispatches > 0
NoRemoteCall == exchanges = <<>>
Unconfirmed == tool_arguments["confirm_execution"] \in {Absent, BoolV(FALSE)}
Declared(tool) == DOMAIN ToolSpec(tool).properties

\* C1: every dispatch of trigger_job_with_confirmation whose
\* confirm_execution is absent or false issues no remote call and returns
\* the blocked warning, whatever was dispatched before.
C1_BlockedWhenUnconfirmed ==
    (tool_name = Trigger /\ Unconfirmed) =>
        /\ NoRemoteCall
        /\ result.kind = "blocked"

\* C1 (amended): such a dispatch issues no remote call, whatever was
\* dispatched before; it returns the blocked warning when job_id is
\* supplied, and the error result for the missing key when it is not.
C1_UnconfirmedNeverCalls ==
    (tool_name = Trigger /\ Unconfirmed) =>
        /\ NoRemoteCall
        /\ posts <= proceeded
        /\ IF tool_arguments["job_id"] # Absent
           THEN result.kind = "blocked" /\ gate = "Blocked"
                /\ result.job = tool_arguments["job_id"]
           ELSE result.kind = "error" /\ gate = "none"

\* An unconfirmed dispatch is blocked after an earlier one was confirmed.
C1_Witness ==
    /\ tool_name = Trigger /\ Unconfirmed
    /\ proceeded >= 1 /\ posts >= 1
    /\ result.kind = "blocked" /\ NoRemoteCall

\* C2: the gate lets trigger_job_with_confirmation through to the POST only
\* when confirm_execution is the boolean true; with any other value the
\* gate does not proceed and no remote call is made.
C2_OnlyStrictTrueProceeds ==
    (tool_name = Trigger /\ tool_arguments["confirm_execution"] # BoolV(TRUE)) =>
        /\ gate # "Proceeding"
        /\ NoRemoteCall

\* C3: a dispatch of a catalog tool that omits a parameter the catalog
\* declares required returns an error result and issues no remote call.
C3_MissingRequiredIsError ==
    (tool_name \in CatalogNames
       /\ \E p \in ToolSpec(tool_name).required : tool_arguments[p] = Absent) =>
        /\ result.kind = "error"
        /\ NoRemoteCall

\* C4: a dispatch in which a supplied argument has not the primitive type
\* the catalog declares for it returns an error result and issues no remote
\* call.
C4_TypeMismatchIsError ==
    (tool_name \in CatalogNames
       /\ \E p \in Declared(tool_name) :
             /\ tool_arguments[p] # Absent
             /\ SchemaType(tool_arguments[p]) # ToolSpec(tool_name).properties[p].type) =>
        /\ result.kind = "error"
        /\ NoRemoteCall

\* C5: a dispatch of get_recent_runs whose limit lies outside the declared
\* bounds returns an error result and issues no remote call.
C5_LimitOutOfBoundsIsError ==
    LET limit == ToolSpec("get_recent_runs").properties["limit"]
    IN  (tool_name = "get_recent_runs"
           /\ tool_arguments["limit"].k = "int"
           /\ \/ tool_arguments["limit"].i < limit.minimum.i
              \/ tool_arguments["limit"].i > limit.maximum.i) =>
            /\ result.kind = "error"
            /\ NoRemoteCall

\* C6: a name that the catalog does not list gets the unknown-tool result
\* and no remote call, whatever the arguments; a name that the catalog
\* lists never gets the unknown-tool result.
C6_UnknownToolIffNotInCatalog ==
    Dispatched =>
        /\ tool_name \notin CatalogNames =>
              /\ result.kind = "unknown" /\ result.tool = tool_name
              /\ NoRemoteCall
        /\ tool_name \in CatalogNames => result.kind # "unknown"

C6_Witness ==
    /\ tool_name = "drop_database"
    /\ tool_arguments["job_id"] = IntV(42) /\ tool_arguments["confirm_execution"] = BoolV(TRUE)
    /\ result.kind = "unknown" /\ NoRemoteCall

\* C7: no exception leaves call_tool: every dispatch returns a result; a
\* remote failure is returned as an error, and when the remote answered
\* with a status other than 200 the error carries that status code.
C7_FailureBecomesErrorResult ==
    Dispatched =>
        /\ ~escaped
        /\ result.kind # "none"
        /\ \A n \in 1..Len(exchanges) :
              LET resp == exchanges[n].resp
              IN  /\ (resp.transport \/ resp.status # StatusOk) =>
                        result.kind \in {"error", "failed"}
                  /\ (~resp.transport /\ resp.status # StatusOk) =>
                        result.status = resp.status

C7_Witness ==
    /\ tool_name = "list_jobs" /\ tool_arguments = NoArgs
    /\ Len(exchanges) = 1
    /\ exchanges[1].req.method = "GET" /\ exchanges[1].req.endpoint = "jobs/"
    /\ exchanges[1].resp.status = 500
    /\ result.kind = "error" /\ result.status = 500

WithDefaults(tool, args) ==
    [p \in Params |->
        IF p \in Declared(tool) /\ args[p] = Absent
        THEN ToolSpec(tool).properties[p].default
        ELSE args[p]]

\* C9: against the same remote answer, get_recent_runs with project_id or
\* limit (or both) omitted issues the same request and returns the same
\* result as with the omitted ones set to the default project and 10; with
\* both omitted the request is GET runs/ with the default project and
\* limit 10.
C9_DefaultSubstitution ==
    (tool_name = "get_recent_runs" /\ Len(exchanges) >= 1) =>
        LET answer == exchanges[1].resp
            explicit == CallTool(tool_name, WithDefaults(tool_name, tool_arguments),
                                 <<answer, answer>>)
        IN  /\ WithDefaults(tool_name, NoArgs)["project_id"] = IntV(DefaultProject)
            /\ WithDefaults(tool_name, NoArgs)["limit"] = IntV(10)
            /\ explicit.exchanges = exchanges
            /\ explicit.result = result
            /\ (tool_arguments["project_id"] = Absent /\ tool_arguments["limit"] = Absent) =>
                  /\ Len(exchanges) = 1
                  /\ exchanges[1].req.method = "GET"
                  /\ exchanges[1].req.endpoint = "runs/"
                  /\ exchanges[1].req.params.project_id = IntV(DefaultProject)
                  /\ exchanges[1].req.params.limit = IntV(10)

C9_Witness ==
    /\ tool_name = "get_recent_runs" /\ tool_arguments = NoArgs
    /\ Len(exchanges) = 1
    /\ exchanges[1].req.params.limit = IntV(10)
    /\ exchanges[1].req.params.project_id = IntV(DefaultProject)
    /\ result.kind = "ok" /\ result.runs = <<Run99>>

\* C10: every remote call made for a tool other than
\* trigger_job_with_confirmation is a GET, and the POSTs issued so far never
\* outnumber the dispatches that passed the confirmation gate.
C10_OnlyTriggerPosts ==
    /\ tool_name # Trigger =>
          \A n \in 1..Len(exchanges) : exchanges[n].req.method = "GET"
    /\ gate # "Proceeding" => Posts(exchanges) = 0
    /\ posts <= proceeded

C10_Witness ==
    /\ tool_name = "search_in_project"
    /\ Len(exchanges) = 2
    /\ exchanges[1].req.method = "GET" /\ exchanges[2].req.method = "GET"
    /\ posts = 1 /\ proceeded = 1

====
